---- MODULE Spec2Model ----
(***************************************************************************)
(* LocalLink: the edge server's TunnelManager (src/server/tunnel.js), the  *)
(* edge's WebSocket connection handler (src/server/server.js) and the      *)
(* tunnel client's dispatcher (src/client/lib/tunnel.js), as one state     *)
(* machine.  Every action is one event-loop callback of the source, run to *)
(* completion.                                                             *)
(***************************************************************************)
EXTENDS Integers, Sequences, FiniteSets, TLC

\* ------------------------------------------------------------------ bounds
\* Public HTTP requests that reach the edge in one run.
MaxReq == 2
\* Values the minted request id can take (timestamp and random suffix).
MaxId == 2
\* Fragments of one public request body.
MaxBody == 1
\* Fragments of one loopback response body.
MaxChunks == 1
\* Recursion levels of the re-emitted 'message' event that unwind normally.
MaxEmitDepth == 1
\* Faults in one run: channel drops, request-stream errors, loopback errors.
MaxFaults == 1
\* The limit of reconnect attempts a client can be configured with.
MaxAttempts == 3
\* Resolution of Math.random(): the values k / RandomSteps, k < RandomSteps.
RandomSteps == 3
\* fs operations of the client that can be pending at one time.
MaxFileOps == 3
\* Consecutive rejections of connectFn the controller is driven through.
MaxRetries == 10
\* Values the clock takes while initConfig is called.
MaxClock == 3
\* Header fields of one public request.
MaxHeaders == 3

Reqs == 1..MaxReq
Ids == 1..MaxId
\* The two control channels of the claims: A connects first, B second.
Chans == {"A", "B"}

\* JavaScript's undefined / null, per field type.
Undef == "undefined"
NoId == 0
NoTunnel == [ws |-> Undef, port |-> 0]

\* ------------------------------------------------------------- sequences
RECURSIVE SeqRemoveAt(_, _)
SeqRemoveAt(s, i) ==
  IF i = 1 THEN Tail(s) ELSE <<Head(s)>> \o SeqRemoveAt(Tail(s), i - 1)

RECURSIVE IndexOf(_, _, _)
\* First index k >= i of s with s[k] = x, or 0.
IndexOf(s, x, i) ==
  IF i > Len(s) THEN 0 ELSE IF s[i] = x THEN i ELSE IndexOf(s, x, i + 1)

IsPrefix(p, s) == Len(p) <= Len(s) /\ SubSeq(s, 1, Len(p)) = p

\* ------------------------------------------------------------ base64
\* Bytes are 0..3 (two bits); a base64 digit carries one bit, so a byte is
\* two digits, high bit first: the radix of the real encoding scaled down.
RECURSIVE ToBase64(_)
ToBase64(bytes) ==
  IF bytes = <<>> THEN <<>>
  ELSE <<Head(bytes) \div 2, Head(bytes) % 2>> \o ToBase64(Tail(bytes))

RECURSIVE FromBase64(_)
\* Buffer.from(s, 'base64'): decodes whole groups, ignores a dangling digit.
FromBase64(s) ==
  IF Len(s) < 2 THEN <<>>
  ELSE <<2 * s[1] + s[2]>> \o FromBase64(SubSeq(s, 3, Len(s)))

\* The bytes of JSON.stringify({error: ..., message: ...}) the client puts
\* inline into a synthetic response.
LocalFailedDoc == <<3, 2>>
LocalErrorDoc == <<3, 0>>

\* ------------------------------------------------------------- headers
\* A headers object is a function from header names to values.
hopByHop ==
  {"connection", "keep-alive", "proxy-authenticate", "proxy-authorization",
   "te", "trailers", "transfer-encoding", "upgrade"}

\* String.prototype.toLowerCase on the names the model uses.
toLowerCase(name) ==
  CASE name = "Connection" -> "connection"
    [] name = "TE" -> "te"
    [] name = "Host" -> "host"
    [] OTHER -> name

\* TunnelManager.sanitizeHeaders: the entries of headers whose lower-cased
\* name is not in hopByHop, copied to a new object.
sanitizeHeadersCaseSensitive(headers) ==
  LET kept == {k \in DOMAIN headers : k \notin hopByHop}
  IN  [k \in kept |-> headers[k]]

sanitizeHeaders(headers) ==
  LET kept == {k \in DOMAIN headers : toLowerCase(k) \notin hopByHop}
  IN  [k \in kept |-> headers[k]]

NoHeaders == [k \in {} |-> 0]

\* No call of sanitizeHeaders has returned.
NotReturned == [returned |-> FALSE, value |-> NoHeaders]

\* hasBody of the request frame: content-length present and parseInt > 0;
\* undefined (dropped by JSON.stringify, falsy at the client) otherwise.
hasBodyOf(headers) ==
  "content-length" \in DOMAIN headers /\ headers["content-length"] > 0

\* ---------------------------------------------------------------- frames
\* One JSON message of the control channel; a field the sender leaves out
\* is Undef / NoId / 0 / <<>> / FALSE.  parsed is what JSON.parse makes of
\* the text: an object, null, a number, or a SyntaxError.
Frame ==
  [type |-> Undef, id |-> NoId, port |-> 0, headers |-> NoHeaders,
   hasBody |-> FALSE, direction |-> Undef, data |-> <<>>, status |-> 0,
   body |-> <<>>, streaming |-> FALSE, message |-> Undef,
   parsed |-> "object"]

\* JSON.parse(data) throws, or the first property read of its result does.
parseThrows(message) == message.parsed \in {"SyntaxError", "null"}

\* ------------------------------------------------- the public response
\* An Express response: statusCode, headersSent, the body bytes written,
\* the JSON error document sent with res.json, and whether it has ended.
NewRes ==
  [status |-> 0, headersSent |-> FALSE, body |-> <<>>, json |-> Undef,
   ended |-> FALSE]

ResStatus(res, code) == [res EXCEPT !.status = code]

\* res.write: the first write flushes the head; a write after end is lost.
ResWrite(res, bytes) ==
  IF res.ended THEN res
  ELSE [res EXCEPT !.headersSent = TRUE, !.body = @ \o bytes]

ResEnd(res) == [res EXCEPT !.headersSent = TRUE, !.ended = TRUE]

\* res.json sets Content-Type, so it throws ERR_HTTP_HEADERS_SENT once the
\* head has been flushed.
JsonThrows(res) == res.headersSent

ResJson(res, error) ==
  [res EXCEPT !.headersSent = TRUE, !.json = error, !.ended = TRUE]

\* --------------------------------------------- the in-flight table (Map)
\* pendingRequests is a JavaScript Map: entries in insertion order; set on
\* a present key replaces the value in place.  An entry is
\* [id, res, responseStarted]; res names the public request whose response
\* and responseHandler the record holds.
RECURSIVE MapIndex(_, _, _)
MapIndex(m, id, i) ==
  IF i > Len(m) THEN 0 ELSE IF m[i].id = id THEN i ELSE MapIndex(m, id, i + 1)

MapHas(m, id) == MapIndex(m, id, 1) # 0
MapGet(m, id) == m[MapIndex(m, id, 1)]

MapSet(m, rec) ==
  IF MapHas(m, rec.id) THEN [m EXCEPT ![MapIndex(m, rec.id, 1)] = rec]
  ELSE Append(m, rec)

MapDelete(m, id) ==
  IF MapHas(m, id) THEN SeqRemoveAt(m, MapIndex(m, id, 1)) ELSE m

\* The public requests that have a record in the table.
InTable(m) == {m[i].res : i \in 1..Len(m)}

\* ------------------------------------------------------------------ state
VARIABLES
  activeTunnel,     \* TunnelManager.activeTunnel: NoTunnel or [ws, port]
  pendingRequests,  \* TunnelManager.pendingRequests, the in-flight table
  readyState,       \* edge side of each channel: IDLE, OPEN, CLOSING, CLOSED
  closeListener,    \* channels that carry registerTunnel's 'close' handler
  listeners,        \* per channel, the responseHandlers on 'message', in order
  toClient,         \* frames sent by the edge, not yet received by the client
  toEdge,           \* frames sent by the client, not yet received by the edge
  req,              \* per public request: its stream (phase, headers, body)
  res,              \* per public request: its Express response
  reqId,            \* per public request: the requestId its closures captured
  timer,            \* per public request: its 30 s timer is armed
  crashed,          \* the edge process died of an uncaught exception
  faults,           \* the faults that have happened so far
  clientState,      \* client side of each channel: IDLE, OPEN, CLOSING, CLOSED
  clientPending,    \* per client, its pendingRequests Map: id -> loopback request
  local,            \* the loopback requests the clients have made, in order
  attempts,         \* ReconnectManager.attempts
  isReconnecting,   \* ReconnectManager.isReconnecting
  reconnectTimeout, \* ReconnectManager.reconnectTimeout: null or the timer
  maxAttempts,      \* ReconnectManager.maxAttempts
  sock,             \* readyState of the WebSocket of the latest connectOnce
  attemptsStarted,  \* connection attempts the controller started since the last open
  exitCode,         \* Running, or Exited(code) after process.exit(code)
  statusFile,       \* status.json: absent, or the document written
  fileOps,          \* the fs operations started and not yet completed
  configFile,       \* config.json: whether it exists, and its text
  now,              \* the clock new Date() reads
  initCall,         \* the latest initConfig call: its argument and its error
  socketUrl,        \* the URL the latest connectOnce gave to new WebSocket
  headersArg,       \* the headers object sanitizeHeaders is called with
  sanitized         \* whether that call has returned, and the object returned

edgeVars ==
  <<activeTunnel, pendingRequests, readyState, closeListener, listeners,
    req, res, reqId, timer, crashed>>
clientVars == <<clientState, clientPending, local>>
lifeVars ==
  <<attempts, isReconnecting, reconnectTimeout, maxAttempts, sock,
    attemptsStarted,
    exitCode, statusFile, fileOps>>
configVars == <<configFile, now, initCall, socketUrl>>
callVars == <<headersArg, sanitized>>
vars ==
  <<edgeVars, toClient, toEdge, clientVars, faults, lifeVars, configVars,
    callVars>>

\* The local port each client is started with, declared in its register
\* frame, and the port registerTunnel falls back to.
LocalPort == [c \in Chans |-> IF c = "A" THEN 8080 ELSE 5000]
DefaultPort == 3000

\* The headers of a public request: without a body, and with one.
GetHeaders == [k \in {"host", "connection"} |-> 1]
PostHeaders(n) ==
  [k \in {"host", "te", "content-length"} |->
     IF k = "content-length" THEN n ELSE 1]

\* The k-th fragment of a public request body, and of a loopback response.
Fragment(k) == <<k>>

RECURSIVE Fragments(_)
\* The concatenation of the first n fragments.
Fragments(n) == IF n = 0 THEN <<>> ELSE Fragments(n - 1) \o Fragment(n)

\* A limit: JavaScript's Infinity or a number; a > m for a number a and a
\* limit m.
Infinity == [finite |-> FALSE, n |-> 0]
Finite(n) == [finite |-> TRUE, n |-> n]
GreaterThan(a, m) == m.finite /\ a > m.n

\* A timer that is not set: this.reconnectTimeout = null.
NoTimer == [armed |-> FALSE, base |-> 0, delay |-> 0]
NoFileOps == [mkdir |-> 0, writeFile |-> 0, unlink |-> 0]

\* The client process: running, or ended by process.exit(code).
Running == [exited |-> FALSE, code |-> 0]
Exited(code) == [exited |-> TRUE, code |-> code]

\* createTunnel: new ReconnectManager(...) with the limit n, then the first
\* connectOnce, whose socket is connecting.
createTunnel(n) ==
  /\ attempts = 0
  /\ isReconnecting = FALSE
  /\ reconnectTimeout = NoTimer
  /\ maxAttempts = n
  /\ sock = "CONNECTING"
  /\ attemptsStarted = 0
  /\ exitCode = Running
  /\ statusFile = "absent"
  /\ fileOps = NoFileOps

\* The edge and the data path of the clients before any connection.
TunnelInit ==
  /\ activeTunnel = NoTunnel
  /\ pendingRequests = <<>>
  /\ readyState = [c \in Chans |-> "IDLE"]
  /\ closeListener = [c \in Chans |-> FALSE]
  /\ listeners = [c \in Chans |-> <<>>]
  /\ toClient = [c \in Chans |-> <<>>]
  /\ toEdge = [c \in Chans |-> <<>>]
  /\ req = [r \in Reqs |-> [phase |-> "new", headers |-> NoHeaders,
                            total |-> 0, read |-> 0]]
  /\ res = [r \in Reqs |-> NewRes]
  /\ reqId = [r \in Reqs |-> NoId]
  /\ timer = [r \in Reqs |-> FALSE]
  /\ crashed = FALSE
  /\ faults = 0
  /\ headersArg = NoHeaders
  /\ sanitized = NotReturned
  /\ clientState = [c \in Chans |-> "IDLE"]
  /\ clientPending = [c \in Chans |-> <<>>]
  /\ local = <<>>

\* ------------------------------------------------------------ config.js
\* A string is a sequence of the characters the validation tells apart; a
\* scheme with its colon counts as one character.
Chars == {"https:", "http:", "ftp:", "/", "a", " "}

\* String.prototype.trim.
RECURSIVE trimStart(_)
trimStart(s) ==
  IF s # <<>> /\ Head(s) = " " THEN trimStart(Tail(s)) ELSE s

RECURSIVE trimEnd(_)
trimEnd(s) ==
  IF s # <<>> /\ s[Len(s)] = " " THEN trimEnd(SubSeq(s, 1, Len(s) - 1)) ELSE s

trim(s) == trimEnd(trimStart(s))

\* s.replace(/\/$/, ''): without the slash the string ends with, if any.
replaceTrailingSlash(s) ==
  IF s # <<>> /\ s[Len(s)] = "/" THEN SubSeq(s, 1, Len(s) - 1) ELSE s

startsWith(s, p) == IsPrefix(p, s)

RECURSIVE skipSlashes(_)
skipSlashes(s) ==
  IF s # <<>> /\ Head(s) = "/" THEN skipSlashes(Tail(s)) ELSE s

RECURSIVE upToSlash(_)
upToSlash(s) ==
  IF s = <<>> \/ Head(s) = "/" THEN <<>> ELSE <<Head(s)>> \o upToSlash(Tail(s))

\* Whether new URL(s) returns: spaces at both ends are stripped, the string
\* starts with a scheme, the slashes after it are skipped, and the host that
\* follows is not empty and holds no space.
URLParses(s) ==
  LET t == trim(s)
      host == upToSlash(skipSlashes(Tail(t)))
  IN  /\ t # <<>>
      /\ Head(t) \in {"https:", "http:", "ftp:"}
      /\ host # <<>>
      /\ \A i \in 1..Len(host) : host[i] # " "

\* s.replace(/^https?:\/\//, 'wss://'): the pattern matches http:// as well
\* as https://.
replaceHttpOptionalS(s) ==
  IF startsWith(s, <<"https:", "/", "/">>) \/ startsWith(s, <<"http:", "/", "/">>)
  THEN <<"wss:", "/", "/">> \o SubSeq(s, 4, Len(s))
  ELSE s

\* s.replace(/^http:\/\//, 'ws://').
replaceHttp(s) ==
  IF startsWith(s, <<"http:", "/", "/">>)
  THEN <<"ws:", "/", "/">> \o SubSeq(s, 4, Len(s))
  ELSE s

\* connectOnce: the URL of the control channel.
wsUrl(serverUrl) == replaceHttp(replaceHttpOptionalS(serverUrl))

connectUrl(serverUrl) == wsUrl(serverUrl) \o <<"/", "connect">>

\* JSON.stringify of a config object and JSON.parse of the text: the text
\* is the members in the order of the object's keys.
JSONstringify(config) ==
  <<<<"domain", config.domain>>, <<"createdAt", config.createdAt>>,
    <<"updatedAt", config.updatedAt>>>>

JSONparse(data) ==
  [domain |-> data[1][2], createdAt |-> data[2][2], updatedAt |-> data[3][2]]

\* config.json does not exist; null for a config object (every field falsy).
NoFile == [exists |-> FALSE, data |-> <<>>]
null == [domain |-> <<>>, createdAt |-> 0, updatedAt |-> 0]
NoCall == [domain |-> <<>>, error |-> Undef]

\* The state of config.json and of the clock when the program starts.
ConfigInit(file) ==
  /\ configFile = file
  /\ now = 1
  /\ initCall = NoCall
  /\ socketUrl = <<>>

\* The config.json the tunnel is started with: 'init https://a' has run.
Configured ==
  [exists |-> TRUE,
   data |-> JSONstringify([domain |-> <<"https:", "/", "/", "a">>,
                            createdAt |-> 1, updatedAt |-> 1])]

Init == TunnelInit /\ createTunnel(Infinity) /\ ConfigInit(Configured)

\* ---------------------------------------------------------- channel sends
\* ws.send: queued on an open socket, dropped on any other.
EdgeSend(q, c, frame) ==
  IF readyState[c] = "OPEN" THEN [q EXCEPT ![c] = Append(@, frame)] ELSE q

ClientSend(q, c, frame) ==
  IF clientState[c] = "OPEN" THEN [q EXCEPT ![c] = Append(@, frame)] ELSE q

\* A frame that was sent is received before any other event happens: the
\* channel delivers in order and without delay.
Urgent ==
  \E c \in Chans : \/ clientState[c] = "OPEN" /\ toClient[c] # <<>>
                   \/ readyState[c] = "OPEN" /\ toEdge[c] # <<>>

\* An event other than the receipt of a frame; a fault counts against the
\* budget of the run.
RegularEvent == ~Urgent /\ UNCHANGED <<faults, lifeVars, configVars, callVars>>
FaultEvent ==
  /\ ~Urgent /\ faults < MaxFaults /\ faults' = faults + 1
  /\ UNCHANGED <<lifeVars, configVars, callVars>>
ReceiveEvent == UNCHANGED <<faults, lifeVars, configVars, callVars>>

\* ------------------------------------------------------- TunnelManager
isActiveIgnoringReadyState == activeTunnel # NoTunnel

isActive ==
  activeTunnel # NoTunnel /\ readyState[activeTunnel.ws] = "OPEN"

\* TunnelManager.getStatus: port and uptime are null without a tunnel;
\* otherwise uptime is the time since registeredAt.
getStatusRegistered ==
  IF activeTunnel = NoTunnel
  THEN [connected |-> FALSE, port |-> 0, uptime |-> Undef]
  ELSE [connected |-> TRUE, port |-> activeTunnel.port,
        uptime |-> "sinceRegisteredAt"]

getStatus ==
  IF activeTunnel = NoTunnel
  THEN [connected |-> FALSE, port |-> 0, uptime |-> Undef]
  ELSE [connected |-> isActive, port |-> activeTunnel.port,
        uptime |-> "sinceRegisteredAt"]

\* ws.removeListener('message', handler) on the registered channel.
RemoveListener(lst, at, h) ==
  IF at = NoTunnel \/ IndexOf(lst[at.ws], h, 1) = 0 THEN lst
  ELSE [lst EXCEPT ![at.ws] = SeqRemoveAt(@, IndexOf(@, h, 1))]

\* The state a responseHandler reads and writes.
EdgeState == [pend |-> pendingRequests, res |-> res, lst |-> listeners]

\* The catch block of responseHandler.
responseHandlerCatch(E, requestId) ==
  IF ~MapHas(E.pend, requestId) THEN E
  ELSE
    LET p == MapGet(E.pend, requestId)
        out == IF ~p.responseStarted
               THEN ResJson(ResStatus(E.res[p.res], 500),
                            "Invalid response from tunnel")
               ELSE ResEnd(E.res[p.res])
    IN  [pend |-> MapDelete(E.pend, requestId),
         res |-> [E.res EXCEPT ![p.res] = out],
         lst |-> RemoveListener(E.lst, activeTunnel, p.res)]

\* The 'response' branch of responseHandler.
onResponseFrame(E, requestId, message) ==
  LET p == MapGet(E.pend, requestId)
      r0 == E.res[p.res]
  IN
  IF DOMAIN message.headers # {} /\ r0.headersSent
  THEN responseHandlerCatch(E, requestId)   \* setHeader throws
  ELSE
    LET r1 == ResStatus(r0, IF message.status # 0 THEN message.status ELSE 200)
        r2 == IF message.body # <<>>
              THEN ResWrite(r1, FromBase64(message.body)) ELSE r1
        started == [E.pend EXCEPT
                      ![MapIndex(E.pend, requestId, 1)].responseStarted = TRUE]
    IN
    IF message.streaming
    THEN [E EXCEPT !.pend = started, !.res[p.res] = r2]
    ELSE [pend |-> MapDelete(started, requestId),
          res |-> [E.res EXCEPT ![p.res] = ResEnd(r2)],
          lst |-> RemoveListener(E.lst, activeTunnel, p.res)]

\* The 'chunk' branch of responseHandler; Buffer.from(undefined, 'base64')
\* throws when the frame has no data.
onChunkFrame(E, requestId, message) ==
  LET p == MapGet(E.pend, requestId)
      r0 == E.res[p.res]
      implicit == ~p.responseStarted /\ ~r0.headersSent
      r1 == IF implicit THEN ResStatus(r0, 200) ELSE r0
      started == p.responseStarted \/ implicit
      r2 == IF ~r1.headersSent \/ started
            THEN ResWrite(r1, FromBase64(message.data)) ELSE r1
      E1 == [E EXCEPT
               !.pend[MapIndex(E.pend, requestId, 1)].responseStarted = started,
               !.res[p.res] = r1]
  IN  IF message.data = <<>> /\ (~r1.headersSent \/ started)
      THEN responseHandlerCatch(E1, requestId)
      ELSE [E1 EXCEPT !.res[p.res] = r2]

\* The 'end' branch of responseHandler.
onEndFrame(E, requestId, message) ==
  LET p == MapGet(E.pend, requestId)
      r0 == E.res[p.res]
      r1 == IF ~p.responseStarted /\ ~r0.headersSent
            THEN ResStatus(r0, 200) ELSE r0
      r2 == IF ~r1.headersSent \/ p.responseStarted THEN ResEnd(r1) ELSE r1
  IN  [pend |-> MapDelete(E.pend, requestId),
       res |-> [E.res EXCEPT ![p.res] = r2],
       lst |-> RemoveListener(E.lst, activeTunnel, p.res)]

\* pending.responseHandler of the request h, called with one message.
responseHandler(E, h, message) ==
  LET requestId == reqId[h] IN
  IF parseThrows(message) THEN responseHandlerCatch(E, requestId)
  ELSE IF message.id # requestId THEN E
  ELSE IF ~MapHas(E.pend, requestId) THEN E
  ELSE CASE message.type = "response" -> onResponseFrame(E, requestId, message)
         [] message.type = "chunk" -> onChunkFrame(E, requestId, message)
         [] message.type = "end" -> onEndFrame(E, requestId, message)
         [] OTHER -> E

RECURSIVE CallListeners(_, _, _)
\* One emit('message'): the handlers in hs, in order.
CallListeners(E, hs, message) ==
  IF hs = <<>> THEN E
  ELSE CallListeners(responseHandler(E, Head(hs), message), Tail(hs), message)

RECURSIVE EmitMessage(_, _, _, _)
\* n nested emits, each calling the listeners that were attached when the
\* message arrived (every emit copies the listener array before any
\* responseHandler has run).
EmitMessage(E, hs, message, n) ==
  IF n = 0 THEN E
  ELSE EmitMessage(CallListeners(E, hs, message), hs, message, n - 1)

\* ------------------------------------------------------------ edge actions
\* The process exits on an uncaught exception: every socket is closed.
CrashClients(cs) ==
  [c \in Chans |-> IF cs[c] = "OPEN" THEN "CLOSING" ELSE cs[c]]

\* The levels at which the connection handler's ws.emit('message', data)
\* re-enters the listeners: the connection handler is the first listener, so
\* the emit recurses until the stack overflows; the RangeError is caught by
\* the try/catch of some level k, and the emits of the levels k..1 then go on
\* to the responseHandlers, as the original emit (level 0) does.
reEmitLevels(message) ==
  IF message.type \in {"response", "chunk", "end"}
  THEN 1..MaxEmitDepth ELSE {0}

\* TunnelManager.registerTunnel called with a tunnel in place:
\* this.activeTunnel is a plain object, so this.activeTunnel.close() throws.
registerTunnelThrows == activeTunnel # NoTunnel

\* ws.on('message') of the connection handler, followed by the
\* responseHandlers attached to the same channel.
EdgeOnMessage(c) ==
  /\ ReceiveEvent
  /\ ~crashed
  /\ readyState[c] = "OPEN"
  /\ toEdge[c] # <<>>
  /\ LET message == Head(toEdge[c]) IN
     /\ toEdge' = [toEdge EXCEPT ![c] = Tail(@)]
     /\ \E k \in reEmitLevels(message) :
          LET E == EmitMessage(EdgeState, listeners[c], message, k + 1) IN
          /\ pendingRequests' = E.pend
          /\ res' = E.res
          /\ listeners' = E.lst
          /\ IF message.type = "register"
             THEN IF registerTunnelThrows
                  THEN /\ toClient' = EdgeSend(toClient, c,
                            [Frame EXCEPT !.type = "error",
                               !.message = "activeTunnel.close is not a function"])
                       /\ UNCHANGED <<activeTunnel, closeListener>>
                  ELSE /\ activeTunnel' =
                            [ws |-> c,
                             port |-> IF message.port # 0 THEN message.port
                                      ELSE DefaultPort]
                       /\ closeListener' = [closeListener EXCEPT ![c] = TRUE]
                       /\ toClient' = EdgeSend(toClient, c,
                            [Frame EXCEPT !.type = "registered",
                               !.port = activeTunnel'.port])
             ELSE /\ toClient' =
                       IF k > 0
                       THEN EdgeSend(toClient, c,
                              [Frame EXCEPT !.type = "error",
                                 !.message = "Maximum call stack size exceeded"])
                       ELSE IF parseThrows(message)
                       THEN EdgeSend(toClient, c,
                              [Frame EXCEPT !.type = "error",
                                 !.message = message.parsed])
                       ELSE toClient
                  /\ UNCHANGED <<activeTunnel, closeListener>>
  /\ UNCHANGED <<readyState, req, reqId, timer, crashed, clientVars>>

\* TunnelManager.forwardRequest for the public request r, whose body has n
\* fragments, with the request id the timestamp and Math.random() give.
\* (Requests arrive in the order of their names, and ids are named in the
\* order in which they are first minted.)
forwardRequest(r, n, id) ==
  /\ RegularEvent
  /\ ~crashed
  /\ req[r].phase = "new"
  /\ r > 1 => req[r - 1].phase # "new"
  /\ \A j \in 1..(id - 1) : \E q \in Reqs : reqId[q] = j
  /\ LET headers == IF n = 0 THEN GetHeaders ELSE PostHeaders(n) IN
     IF ~isActive
     THEN /\ res' = [res EXCEPT
                 ![r] = ResJson(ResStatus(@, 503), "No active tunnel")]
          /\ req' = [req EXCEPT ![r] = [phase |-> "rejected",
                        headers |-> headers, total |-> n, read |-> 0]]
          /\ UNCHANGED <<pendingRequests, listeners, toClient, reqId, timer>>
     ELSE /\ pendingRequests' = MapSet(pendingRequests,
                 [id |-> id, res |-> r, responseStarted |-> FALSE])
          /\ listeners' = [listeners EXCEPT ![activeTunnel.ws] = Append(@, r)]
          /\ toClient' = EdgeSend(toClient, activeTunnel.ws,
                 [Frame EXCEPT !.type = "request", !.id = id,
                    !.headers = sanitizeHeaders(headers),
                    !.hasBody = hasBodyOf(headers)])
          /\ req' = [req EXCEPT ![r] = [phase |-> "open",
                        headers |-> headers, total |-> n, read |-> 0]]
          /\ reqId' = [reqId EXCEPT ![r] = id]
          /\ timer' = [timer EXCEPT ![r] = TRUE]
          /\ UNCHANGED res
  /\ UNCHANGED <<activeTunnel, readyState, closeListener, crashed, toEdge,
                 clientVars>>

\* req.on('data'): the next fragment of the public request body.
ReqOnData(r) ==
  /\ RegularEvent
  /\ ~crashed
  /\ req[r].phase = "open"
  /\ req[r].read < req[r].total
  /\ req' = [req EXCEPT ![r].read = @ + 1]
  /\ toClient' =
       IF isActive
       THEN EdgeSend(toClient, activeTunnel.ws,
              [Frame EXCEPT !.type = "chunk", !.id = reqId[r],
                 !.data = ToBase64(Fragment(req[r].read + 1))])
       ELSE toClient
  /\ UNCHANGED <<activeTunnel, pendingRequests, readyState, closeListener,
                 listeners, res, reqId, timer, crashed, toEdge, clientVars>>

\* req.on('end'): the public request body is complete.
ReqOnEnd(r) ==
  /\ RegularEvent
  /\ ~crashed
  /\ req[r].phase = "open"
  /\ req[r].read = req[r].total
  /\ req' = [req EXCEPT ![r].phase = "ended"]
  /\ toClient' =
       IF isActive
       THEN EdgeSend(toClient, activeTunnel.ws,
              [Frame EXCEPT !.type = "end", !.id = reqId[r],
                 !.direction = "request"])
       ELSE toClient
  /\ UNCHANGED <<activeTunnel, pendingRequests, readyState, closeListener,
                 listeners, res, reqId, timer, crashed, toEdge, clientVars>>

\* The record a timer or a request-stream error handler of r finds:
\* this.pendingRequests.get(requestId).
LookupClosure(r) ==
  [found |-> reqId[r] # NoId,
   rec |-> [id |-> reqId[r], res |-> r, responseStarted |-> FALSE]]

Lookup(r) ==
  IF MapHas(pendingRequests, reqId[r])
  THEN [found |-> TRUE, rec |-> MapGet(pendingRequests, reqId[r])]
  ELSE [found |-> FALSE,
        rec |-> [id |-> NoId, res |-> r, responseStarted |-> FALSE]]

\* What the end of both handlers does with the record p they found: delete
\* it, and remove its responseHandler from this.activeTunnel.ws, which
\* throws when activeTunnel is null.
ReapRecord(p, out) ==
  /\ res' = [res EXCEPT ![p.res] = out]
  /\ pendingRequests' = MapDelete(pendingRequests, p.id)
  /\ IF activeTunnel = NoTunnel
     THEN /\ crashed' = TRUE
          /\ clientState' = CrashClients(clientState)
          /\ UNCHANGED listeners
     ELSE /\ listeners' = RemoveListener(listeners, activeTunnel, p.res)
          /\ UNCHANGED <<crashed, clientState>>

\* req.on('error'): the public request stream fails before its end.
ReqOnError(r) ==
  /\ FaultEvent
  /\ ~crashed
  /\ req[r].phase = "open"
  /\ req' = [req EXCEPT ![r].phase = "errored"]
  /\ LET l == Lookup(r) IN
     IF l.found
     THEN ReapRecord(l.rec,
            IF ~l.rec.responseStarted
            THEN ResJson(ResStatus(res[l.rec.res], 500), "Request stream error")
            ELSE res[l.rec.res])
     ELSE UNCHANGED <<res, pendingRequests, listeners, crashed, clientState>>
  /\ UNCHANGED <<activeTunnel, readyState, closeListener, reqId, timer,
                 toClient, toEdge, clientPending, local>>

\* The setTimeout callback of r's forwardRequest.
RequestTimeout(r) ==
  /\ RegularEvent
  /\ ~crashed
  /\ timer[r]
  /\ timer' = [timer EXCEPT ![r] = FALSE]
  /\ LET l == Lookup(r) IN
     IF l.found
     THEN ReapRecord(l.rec,
            IF ~l.rec.responseStarted
            THEN ResJson(ResStatus(res[l.rec.res], 504), "Request timeout")
            ELSE ResEnd(res[l.rec.res]))
     ELSE UNCHANGED <<res, pendingRequests, listeners, crashed, clientState>>
  /\ UNCHANGED <<activeTunnel, readyState, closeListener, req, reqId,
                 toClient, toEdge, clientPending, local>>

RECURSIVE RejectAll(_, _, _)
\* The loop of the 'close' handler over pendingRequests.entries(), from
\* entry i on: 503 for each record, until res.json throws (res.status has
\* set the status code by then).
RejectAll(m, i, R) ==
  IF i > Len(m) THEN [res |-> R, threw |-> FALSE]
  ELSE IF JsonThrows(R[m[i].res])
  THEN [res |-> [R EXCEPT ![m[i].res] = ResStatus(@, 503)], threw |-> TRUE]
  ELSE RejectAll(m, i + 1,
         [R EXCEPT ![m[i].res] =
            ResJson(ResStatus(@, 503), "Tunnel disconnected")])

\* ws.on('close') at the edge: the handler registerTunnel attached, if any.
EdgeOnClose(c) ==
  /\ RegularEvent
  /\ ~crashed
  /\ readyState[c] = "CLOSING"
  /\ readyState' = [readyState EXCEPT ![c] = "CLOSED"]
  /\ IF closeListener[c] /\ activeTunnel # NoTunnel /\ activeTunnel.ws = c
     THEN LET out == RejectAll(pendingRequests, 1, res) IN
          /\ activeTunnel' = NoTunnel
          /\ res' = out.res
          /\ IF out.threw
             THEN /\ crashed' = TRUE
                  /\ clientState' = CrashClients(clientState)
                  /\ UNCHANGED pendingRequests
             ELSE /\ pendingRequests' = <<>>
                  /\ UNCHANGED <<crashed, clientState>>
     ELSE UNCHANGED <<activeTunnel, res, pendingRequests, crashed, clientState>>
  /\ UNCHANGED <<closeListener, listeners, req, reqId, timer, toClient,
                 toEdge, clientPending, local>>

\* The transport of channel c goes down: both ends start closing and the
\* frames in flight are lost.
ChannelDrop(c) ==
  /\ FaultEvent
  /\ ~crashed
  /\ readyState[c] = "OPEN"
  /\ readyState' = [readyState EXCEPT ![c] = "CLOSING"]
  /\ clientState' = [clientState EXCEPT ![c] = "CLOSING"]
  /\ toClient' = [toClient EXCEPT ![c] = <<>>]
  /\ toEdge' = [toEdge EXCEPT ![c] = <<>>]
  /\ UNCHANGED <<activeTunnel, pendingRequests, closeListener, listeners,
                 req, res, reqId, timer, crashed, clientPending, local>>

\* ---------------------------------------------------------- client actions
\* The headers a loopback response can carry (res.headers, names lowercased
\* by the HTTP parser), and its status codes.
LocalHeaderChoices ==
  {[k \in {"content-type"} |-> 1],
   [k \in {"content-type", "connection", "transfer-encoding"} |-> 1]}
LocalStatusChoices == {200}

\* ws.on('open') of connectOnce, as the edge accepts the connection: the
\* client registers with its local port.
ClientOnOpen(c) ==
  /\ RegularEvent
  /\ ~crashed
  /\ clientState[c] = "IDLE"
  /\ c = "B" => clientState["A"] # "IDLE"
  /\ clientState' = [clientState EXCEPT ![c] = "OPEN"]
  /\ readyState' = [readyState EXCEPT ![c] = "OPEN"]
  /\ toEdge' = [toEdge EXCEPT
        ![c] = Append(@, [Frame EXCEPT !.type = "register",
                                        !.port = LocalPort[c]])]
  /\ UNCHANGED <<activeTunnel, pendingRequests, closeListener, listeners,
                 req, res, reqId, timer, crashed, toClient, clientPending,
                 local>>

\* ws.on('close') of connectOnce.
ClientOnClose(c) ==
  /\ RegularEvent
  /\ ~crashed
  /\ clientState[c] = "CLOSING"
  /\ clientState' = [clientState EXCEPT ![c] = "CLOSED"]
  /\ clientPending' = [clientPending EXCEPT ![c] = <<>>]
  /\ UNCHANGED <<edgeVars, toClient, toEdge, local>>

\* A loopback request: the channel and id it serves, the body bytes written
\* to it, whether req.end() was called, the stage of its response and the
\* number of response fragments forwarded.
NewLocal(c, id) ==
  [chan |-> c, id |-> id, written |-> <<>>, ended |-> FALSE,
   stage |-> "pending", sent |-> 0]

\* forwardToLocal.
forwardToLocal(c, message) ==
  LET l == Len(local) + 1
      fresh == NewLocal(c, message.id)
      entry == [id |-> message.id, req |-> l]
  IN
  IF message.body # <<>>
  THEN /\ local' = Append(local,
              [fresh EXCEPT !.written = FromBase64(message.body),
                            !.ended = TRUE])
       /\ clientPending' = [clientPending EXCEPT
              ![c] = MapDelete(MapSet(@, entry), message.id)]
  ELSE IF ~message.hasBody
  THEN /\ local' = Append(local, [fresh EXCEPT !.ended = TRUE])
       /\ clientPending' = [clientPending EXCEPT
              ![c] = MapDelete(MapSet(@, entry), message.id)]
  ELSE /\ local' = Append(local, fresh)
       /\ clientPending' = [clientPending EXCEPT ![c] = MapSet(@, entry)]

\* handleRequestChunk.
handleRequestChunkToLatest(c, message) ==
  /\ UNCHANGED clientPending
  /\ IF local = <<>>
     THEN UNCHANGED local
     ELSE local' = [local EXCEPT
            ![Len(local)].written = @ \o FromBase64(message.data)]

handleRequestChunk(c, message) ==
  /\ UNCHANGED clientPending
  /\ IF ~MapHas(clientPending[c], message.id)
     THEN UNCHANGED local
     ELSE LET l == MapGet(clientPending[c], message.id).req IN
          local' = [local EXCEPT ![l].written = @ \o FromBase64(message.data)]

\* handleRequestEnd.
handleRequestEndKeepingEntry(c, message) ==
  IF ~MapHas(clientPending[c], message.id)
  THEN UNCHANGED <<local, clientPending>>
  ELSE LET l == MapGet(clientPending[c], message.id).req IN
       /\ local' = [local EXCEPT ![l].ended = TRUE]
       /\ UNCHANGED clientPending

handleRequestEnd(c, message) ==
  IF ~MapHas(clientPending[c], message.id)
  THEN UNCHANGED <<local, clientPending>>
  ELSE LET l == MapGet(clientPending[c], message.id).req IN
       /\ local' = [local EXCEPT ![l].ended = TRUE]
       /\ clientPending' = [clientPending EXCEPT
              ![c] = MapDelete(@, message.id)]

\* The dispatch of ws.on('message') of connectOnce.
isRequestChunk(message) ==
  message.type = "chunk" /\ message.direction = "request"

isRequestEnd(message) ==
  message.type = "end" /\ message.direction = "request"

ClientOnMessage(c) ==
  /\ ReceiveEvent
  /\ ~crashed
  /\ clientState[c] = "OPEN"
  /\ toClient[c] # <<>>
  /\ toClient' = [toClient EXCEPT ![c] = Tail(@)]
  /\ LET message == Head(toClient[c]) IN
     CASE message.type = "request" -> forwardToLocal(c, message)
       [] isRequestChunk(message) -> handleRequestChunk(c, message)
       [] isRequestEnd(message) /\ ~isRequestChunk(message) ->
            handleRequestEnd(c, message)
       [] OTHER -> UNCHANGED <<local, clientPending>>
  /\ UNCHANGED <<edgeVars, toEdge, clientState>>

\* The loopback requests whose head has reached the local service.
Flushed(l) == local[l].ended \/ local[l].written # <<>>

\* The response callback of http.request: status and headers arrive.
LocalResponse(l, status, headers) ==
  /\ RegularEvent
  /\ l \in 1..Len(local)
  /\ ~crashed
  /\ clientState[local[l].chan] = "OPEN"
  /\ local[l].stage = "pending"
  /\ Flushed(l)
  /\ local' = [local EXCEPT ![l].stage = "responding"]
  /\ toEdge' = ClientSend(toEdge, local[l].chan,
        [Frame EXCEPT !.type = "response", !.id = local[l].id,
           !.status = status, !.headers = headers, !.streaming = TRUE])
  /\ UNCHANGED <<edgeVars, toClient, clientState, clientPending>>

\* res.on('data'): the next fragment of the loopback response body.
LocalData(l) ==
  /\ RegularEvent
  /\ l \in 1..Len(local)
  /\ ~crashed
  /\ clientState[local[l].chan] = "OPEN"
  /\ local[l].stage = "responding"
  /\ local[l].sent < MaxChunks
  /\ local' = [local EXCEPT ![l].sent = @ + 1]
  /\ toEdge' = ClientSend(toEdge, local[l].chan,
        [Frame EXCEPT !.type = "chunk", !.id = local[l].id,
           !.data = ToBase64(Fragment(local[l].sent + 1))])
  /\ UNCHANGED <<edgeVars, toClient, clientState, clientPending>>

\* res.on('end').
LocalEnd(l) ==
  /\ RegularEvent
  /\ l \in 1..Len(local)
  /\ ~crashed
  /\ clientState[local[l].chan] = "OPEN"
  /\ local[l].stage = "responding"
  /\ local' = [local EXCEPT ![l].stage = "ended"]
  /\ toEdge' = ClientSend(toEdge, local[l].chan,
        [Frame EXCEPT !.type = "end", !.id = local[l].id])
  /\ UNCHANGED <<edgeVars, toClient, clientState, clientPending>>

\* res.on('error'): the loopback response fails mid-stream.
LocalResponseError(l) ==
  /\ FaultEvent
  /\ l \in 1..Len(local)
  /\ ~crashed
  /\ clientState[local[l].chan] = "OPEN"
  /\ local[l].stage = "responding"
  /\ local' = [local EXCEPT ![l].stage = "failed"]
  /\ toEdge' = ClientSend(toEdge, local[l].chan,
        [Frame EXCEPT !.type = "response", !.id = local[l].id,
           !.status = 500, !.body = ToBase64(LocalErrorDoc)])
  /\ UNCHANGED <<edgeVars, toClient, clientState, clientPending>>

\* req.on('error'): the loopback request cannot be established.
LocalRequestError(l) ==
  /\ FaultEvent
  /\ l \in 1..Len(local)
  /\ ~crashed
  /\ clientState[local[l].chan] = "OPEN"
  /\ local[l].stage = "pending"
  /\ local' = [local EXCEPT ![l].stage = "failed"]
  /\ toEdge' = ClientSend(toEdge, local[l].chan,
        [Frame EXCEPT !.type = "response", !.id = local[l].id,
           !.status = 502, !.body = ToBase64(LocalFailedDoc)])
  /\ clientPending' = [clientPending EXCEPT
        ![local[l].chan] = MapDelete(@, local[l].id)]
  /\ UNCHANGED <<edgeVars, toClient, clientState>>

\* ------------------------------------------------- a misbehaving peer
\* The messages a peer can send that the client's own code never sends: text
\* that is not JSON, the JSON values null and 5, and frames with a field
\* missing (a chunk without data, a response without status, headers and
\* streaming, a frame without type, a chunk without id).
MalformedFrames ==
  {[Frame EXCEPT !.parsed = v] : v \in {"SyntaxError", "null", "number"}}
  \cup {[Frame EXCEPT !.type = t, !.id = id] :
          t \in {"chunk", "response", Undef}, id \in Ids}
  \cup {[Frame EXCEPT !.type = "chunk", !.data = ToBase64(Fragment(1))]}

\* Well-formed frames sent out of order: a chunk and an end that no
\* response frame precedes.
EarlyFrames ==
  {[Frame EXCEPT !.type = "chunk", !.id = id, !.data = ToBase64(Fragment(1))] :
     id \in Ids}
  \cup {[Frame EXCEPT !.type = "end", !.id = id] : id \in Ids}

\* The peer of channel c sends one of them.
PeerSends(c, frame) ==
  /\ FaultEvent
  /\ ~crashed
  /\ clientState[c] = "OPEN"
  /\ toEdge' = [toEdge EXCEPT ![c] = Append(@, frame)]
  /\ UNCHANGED <<edgeVars, toClient, clientVars>>

\* The request-body frames an edge can send for any id, whatever the client
\* holds for it: a chunk and an end with direction = request.
RequestBodyFrames ==
  {[Frame EXCEPT !.type = "chunk", !.id = id, !.direction = "request",
                 !.data = ToBase64(Fragment(1))] : id \in Ids}
  \cup {[Frame EXCEPT !.type = "end", !.id = id, !.direction = "request"] :
          id \in Ids}

\* The server at the other end of channel c sends one of them.
ServerSends(c, frame) ==
  /\ FaultEvent
  /\ ~crashed
  /\ readyState[c] = "OPEN"
  /\ toClient' = [toClient EXCEPT ![c] = Append(@, frame)]
  /\ UNCHANGED <<edgeVars, toEdge, clientVars>>

\* --------------------------------------------------- ReconnectManager
\* The values Math.random() takes: k / RandomSteps for k in Randoms.
Randoms == 0..(RandomSteps - 1)

baseDelay == 1000
maxDelay == 60000

RECURSIVE Pow2(_)
Pow2(n) == IF n = 0 THEN 1 ELSE 2 * Pow2(n - 1)

Min(a, b) == IF a < b THEN a ELSE b

\* ReconnectManager.getDelay with this.attempts = n and Math.random() =
\* k / RandomSteps: the timer it leads to, with the delay before jitter.
getDelayUncapped(n, k) ==
  LET delay == baseDelay * Pow2(n)
      jitter == (3 * k * delay) \div (10 * RandomSteps)
  IN  [armed |-> TRUE, base |-> delay, delay |-> delay + jitter]

getDelay(n, k) ==
  LET delay == Min(baseDelay * Pow2(n), maxDelay)
      jitter == (3 * k * delay) \div (10 * RandomSteps)
  IN  [armed |-> TRUE, base |-> delay, delay |-> delay + jitter]

\* The fields of the ReconnectManager.
Controller ==
  [attempts |-> attempts, isReconnecting |-> isReconnecting,
   reconnectTimeout |-> reconnectTimeout]

\* ReconnectManager.reconnect up to the return of its promise: the fields
\* afterwards, and whether it threw 'Max reconnection attempts reached'.
reconnectAlways(R, k) ==
  IF GreaterThan(R.attempts + 1, maxAttempts)
  THEN [R |-> [R EXCEPT !.attempts = @ + 1, !.isReconnecting = FALSE],
        threw |-> TRUE]
  ELSE [R |-> [attempts |-> R.attempts + 1, isReconnecting |-> TRUE,
               reconnectTimeout |-> getDelay(R.attempts + 1, k)],
        threw |-> FALSE]

reconnect(R, k) ==
  IF R.isReconnecting THEN [R |-> R, threw |-> FALSE]
  ELSE IF GreaterThan(R.attempts + 1, maxAttempts)
  THEN [R |-> [R EXCEPT !.attempts = @ + 1, !.isReconnecting = FALSE],
        threw |-> TRUE]
  ELSE [R |-> [attempts |-> R.attempts + 1, isReconnecting |-> TRUE,
               reconnectTimeout |-> getDelay(R.attempts + 1, k)],
        threw |-> FALSE]

\* ReconnectManager.cancel.
cancelKeepingTimer(R) ==
  [R EXCEPT !.isReconnecting = FALSE, !.attempts = 0]

cancel(R) ==
  [attempts |-> 0, isReconnecting |-> FALSE, reconnectTimeout |-> NoTimer]

\* ReconnectManager.reset.
resetKeepingAttempts(R) ==
  [R EXCEPT !.isReconnecting = FALSE, !.reconnectTimeout = NoTimer]

reset(R) ==
  [attempts |-> 0, isReconnecting |-> FALSE, reconnectTimeout |-> NoTimer]

SetController(R) ==
  /\ attempts' = R.attempts
  /\ isReconnecting' = R.isReconnecting
  /\ reconnectTimeout' = R.reconnectTimeout

\* --------------------------------------------- the client's life cycle
\* An event of the client process while it runs; the edge and the data path
\* are left alone.
ClientEvent ==
  /\ exitCode = Running
  /\ UNCHANGED <<edgeVars, toClient, toEdge, clientVars, faults, maxAttempts,
                 configVars, callVars>>

PendingFileOps == fileOps.mkdir + fileOps.writeFile + fileOps.unlink

\* ws.on('open') of connectOnce: reset(), updateStatus() started and not
\* awaited, resolve(ws); when the timer callback of reconnect awaits this
\* connectOnce, its continuation resets the counter as well.
WsOpen ==
  /\ ClientEvent
  /\ sock = "CONNECTING"
  /\ PendingFileOps < MaxFileOps
  /\ sock' = "OPEN"
  /\ SetController(reset(Controller))
  /\ attemptsStarted' = 0
  /\ fileOps' = [fileOps EXCEPT !.mkdir = @ + 1]
  /\ UNCHANGED <<exitCode, statusFile>>

\* ws.on('close') of connectOnce: clearStatus() started and not awaited,
\* pendingRequests.clear(), then reconnect(), whose rejection ends the
\* process with code 1.
onClose(k) ==
  LET out == reconnect(Controller, k) IN
  /\ PendingFileOps < MaxFileOps
  /\ sock' = "CLOSED"
  /\ fileOps' = [fileOps EXCEPT !.unlink = @ + 1]
  /\ SetController(out.R)
  /\ exitCode' = IF out.threw THEN Exited(1) ELSE exitCode
  /\ UNCHANGED <<attemptsStarted, statusFile>>

\* The open channel closes.
WsClose(k) ==
  /\ ClientEvent
  /\ sock = "OPEN"
  /\ onClose(k)

\* A connection attempt fails: ws 'error' (which only logs), then 'close'.
\* The promise of this connectOnce is never settled.
WsConnectFails(k) ==
  /\ ClientEvent
  /\ sock = "CONNECTING"
  /\ onClose(k)

\* The timer callback of reconnect: connectFn() creates the next socket and
\* the callback awaits its promise.
ReconnectTimer ==
  /\ ClientEvent
  /\ reconnectTimeout.armed
  /\ reconnectTimeout' = [reconnectTimeout EXCEPT !.armed = FALSE]
  /\ sock' = "CONNECTING"
  /\ attemptsStarted' = attemptsStarted + 1
  /\ UNCHANGED <<attempts, isReconnecting, exitCode, statusFile, fileOps>>

\* The SIGINT handler of createTunnel: cancel(), then process.exit(0).
Sigint ==
  /\ ClientEvent
  /\ SetController(cancel(Controller))
  /\ exitCode' = Exited(0)
  /\ UNCHANGED <<sock, attemptsStarted, statusFile, fileOps>>

\* updateStatus: fs.mkdir completes and fs.writeFile is started.
MkdirDone ==
  /\ ClientEvent
  /\ fileOps.mkdir > 0
  /\ fileOps' = [fileOps EXCEPT !.mkdir = @ - 1, !.writeFile = @ + 1]
  /\ UNCHANGED <<attempts, isReconnecting, reconnectTimeout, sock,
                 attemptsStarted, exitCode, statusFile>>

\* updateStatus: fs.writeFile completes.
WriteFileDone ==
  /\ ClientEvent
  /\ fileOps.writeFile > 0
  /\ fileOps' = [fileOps EXCEPT !.writeFile = @ - 1]
  /\ statusFile' = "connected"
  /\ UNCHANGED <<attempts, isReconnecting, reconnectTimeout, sock,
                 attemptsStarted, exitCode>>

\* clearStatus: fs.unlink completes (ENOENT is swallowed).
UnlinkDone ==
  /\ ClientEvent
  /\ fileOps.unlink > 0
  /\ fileOps' = [fileOps EXCEPT !.unlink = @ - 1]
  /\ statusFile' = "absent"
  /\ UNCHANGED <<attempts, isReconnecting, reconnectTimeout, sock,
                 attemptsStarted, exitCode>>

ClientInit ==
  /\ TunnelInit
  /\ \E n \in {Finite(MaxAttempts), Infinity} : createTunnel(n)
  /\ ConfigInit(Configured)

ClientNext ==
  \/ WsOpen
  \/ \E k \in Randoms : WsClose(k)
  \/ \E k \in Randoms : WsConnectFails(k)
  \/ ReconnectTimer
  \/ Sigint
  \/ MkdirDone
  \/ WriteFileDone
  \/ UnlinkDone

ClientSpec == ClientInit /\ [][ClientNext]_vars

\* ------------------------------------- the controller and its connectFn
\* The catch branch of the timer callback: connectFn() rejects (new
\* WebSocket throws inside the promise executor of connectOnce), so the
\* callback clears isReconnecting and calls reconnect() again; when that
\* throws, the rejection reaches the catch of the 'close' handler, which
\* ends the process with code 1.
ConnectRejects(k) ==
  LET out == reconnect([Controller EXCEPT !.isReconnecting = FALSE], k) IN
  /\ ClientEvent
  /\ sock = "CONNECTING"
  /\ attemptsStarted > 0
  /\ attempts < MaxRetries
  /\ sock' = "CLOSED"
  /\ SetController(out.R)
  /\ exitCode' = IF out.threw THEN Exited(1) ELSE exitCode
  /\ UNCHANGED <<attemptsStarted, statusFile, fileOps>>

\* The ReconnectManager driven by a connectFn that rejects.
ControllerNext ==
  \/ \E k \in Randoms : WsConnectFails(k)
  \/ ReconnectTimer
  \/ \E k \in Randoms : ConnectRejects(k)

ControllerSpec == ClientInit /\ [][ControllerNext]_vars

\* The client with a connectFn that can reject as well: any number of
\* attempts can precede an open.
RetryNext ==
  \/ WsOpen
  \/ \E k \in Randoms : WsClose(k)
  \/ \E k \in Randoms : WsConnectFails(k)
  \/ ReconnectTimer
  \/ \E k \in Randoms : ConnectRejects(k)
  \/ Sigint
  \/ MkdirDone
  \/ WriteFileDone
  \/ UnlinkDone

RetrySpec == ClientInit /\ [][RetryNext]_vars

\* ------------------------------------------------------ the config file
\* The arguments initConfig is called with: optional space, a scheme, a
\* host, and what follows it.
Domains ==
  {<<>>}
  \cup {lead \o scheme \o host \o tail :
          lead \in {<<>>, <<" ">>},
          scheme \in {<<"https:", "/", "/">>, <<"http:", "/", "/">>,
                      <<"ftp:", "/", "/">>, <<"https:", "/">>},
          host \in {<<>>, <<"a">>, <<"a", " ", "a">>},
          tail \in {<<>>, <<"/">>, <<"/", "/">>, <<" ">>, <<" ", "/">>,
                    <<"/", " ">>}}

\* getConfig: null when the file does not exist or holds no domain.
getConfig ==
  IF ~configFile.exists THEN null
  ELSE IF JSONparse(configFile.data).domain = <<>> THEN null
  ELSE JSONparse(configFile.data)

\* existingConfig?.createdAt || new Date().toISOString()
createdAtAlwaysNew(existingConfig) == now

createdAt(existingConfig) ==
  IF existingConfig.createdAt # 0 THEN existingConfig.createdAt ELSE now

\* initConfig(domain), from the call to the settling of its promise.
initConfig(domain) ==
  LET normalized == replaceTrailingSlash(trim(domain))
      existingConfig ==
        IF configFile.exists THEN JSONparse(configFile.data) ELSE null
      config == [domain |-> normalized,
                 createdAt |-> createdAt(existingConfig),
                 updatedAt |-> now]
      error ==
        IF domain = <<>> THEN "Domain is required"
        ELSE IF /\ ~startsWith(normalized, <<"http:", "/", "/">>)
                /\ ~startsWith(normalized, <<"https:", "/", "/">>)
        THEN "Domain must start with http:// or https://"
        ELSE IF ~URLParses(normalized) THEN "Invalid domain URL format"
        ELSE Undef
  IN
  /\ initCall' = [domain |-> domain, error |-> error]
  /\ configFile' =
       IF error # Undef THEN configFile
       ELSE [exists |-> TRUE, data |-> JSONstringify(config)]
  /\ UNCHANGED <<edgeVars, toClient, toEdge, clientVars, faults, lifeVars, now,
                 socketUrl, callVars>>

\* Time passes.
Tick ==
  /\ now < MaxClock
  /\ now' = now + 1
  /\ UNCHANGED <<edgeVars, toClient, toEdge, clientVars, faults, lifeVars,
                 configFile, initCall, socketUrl, callVars>>

ConfigNext ==
  \/ \E domain \in Domains : initConfig(domain)
  \/ Tick

\* Before the first `locallink init`: no config file on disk.
FirstRun == TunnelInit /\ createTunnel(Infinity) /\ ConfigInit(NoFile)

ConfigSpec == FirstRun /\ [][ConfigNext]_vars

\* The start command: getConfig, then createTunnel(config.domain, port),
\* whose connectOnce opens a socket to connectUrl.  Without a configured
\* domain the command exits with an error.
Start ==
  /\ getConfig # null
  /\ socketUrl' = connectUrl(getConfig.domain)
  /\ UNCHANGED <<edgeVars, toClient, toEdge, clientVars, faults, lifeVars,
                 configFile, now, initCall, callVars>>

StartNext ==
  \/ \E domain \in Domains : initConfig(domain)
  \/ Tick
  \/ Start

StartSpec == FirstRun /\ [][StartNext]_vars

\* ------------------------------------------- sanitizeHeaders by itself
\* The names and values of the headers a public request can carry: the
\* hop-by-hop names in lower case and as typed, and end-to-end names.
HeaderNames ==
  hopByHop \cup {"Connection", "TE", "Host", "host", "content-type",
                 "content-length"}
HeaderValues == 1..2
HeaderObjects ==
  UNION {[names -> HeaderValues] :
           names \in {ns \in SUBSET HeaderNames : Cardinality(ns) <= MaxHeaders}}

\* A public request arrives with the headers h.
RequestArrives(h) ==
  /\ headersArg = NoHeaders /\ ~sanitized.returned
  /\ headersArg' = h
  /\ UNCHANGED <<edgeVars, toClient, toEdge, clientVars, faults, lifeVars,
                 configVars, sanitized>>

\* this.sanitizeHeaders(req.headers): the loop reads headers and writes the
\* new object only.
Sanitize ==
  /\ ~sanitized.returned
  /\ sanitized' = [returned |-> TRUE, value |-> sanitizeHeaders(headersArg)]
  /\ UNCHANGED <<edgeVars, toClient, toEdge, clientVars, faults, lifeVars,
                 configVars, headersArg>>

\* sanitizeHeaders called with the object it returned.
SanitizeAgain ==
  /\ sanitized.returned
  /\ headersArg # sanitized.value
  /\ headersArg' = sanitized.value
  /\ sanitized' = [returned |-> TRUE, value |-> sanitizeHeaders(sanitized.value)]
  /\ UNCHANGED <<edgeVars, toClient, toEdge, clientVars, faults, lifeVars,
                 configVars>>

SanitizeNext ==
  \/ \E h \in HeaderObjects : RequestArrives(h)
  \/ Sanitize
  \/ SanitizeAgain

SanitizeSpec == Init /\ [][SanitizeNext]_vars

\* ------------------------------------------------------- the specification
Next ==
  \/ \E c \in Chans : ClientOnOpen(c)
  \/ \E c \in Chans : EdgeOnMessage(c)
  \/ \E r \in Reqs, n \in 0..MaxBody, id \in Ids : forwardRequest(r, n, id)
  \/ \E r \in Reqs : ReqOnData(r)
  \/ \E r \in Reqs : ReqOnEnd(r)
  \/ \E r \in Reqs : ReqOnError(r)
  \/ \E r \in Reqs : RequestTimeout(r)
  \/ \E c \in Chans : ChannelDrop(c)
  \/ \E c \in Chans : EdgeOnClose(c)
  \/ \E c \in Chans : ClientOnClose(c)
  \/ \E c \in Chans : ClientOnMessage(c)
  \/ \E l \in 1..MaxReq, s \in LocalStatusChoices, h \in LocalHeaderChoices :
       LocalResponse(l, s, h)
  \/ \E l \in 1..MaxReq : LocalData(l)
  \/ \E l \in 1..MaxReq : LocalEnd(l)
  \/ \E l \in 1..MaxReq : LocalResponseError(l)
  \/ \E l \in 1..MaxReq : LocalRequestError(l)

Spec == Init /\ [][Next]_vars

\* The data path while the channels stay up, with a peer that can send a
\* malformed message.
FrameNext ==
  \/ \E c \in Chans : ClientOnOpen(c)
  \/ \E c \in Chans : EdgeOnMessage(c)
  \/ \E r \in Reqs, n \in 0..MaxBody, id \in Ids : forwardRequest(r, n, id)
  \/ \E r \in Reqs : ReqOnData(r)
  \/ \E r \in Reqs : ReqOnEnd(r)
  \/ \E c \in Chans : ClientOnMessage(c)
  \/ \E l \in 1..MaxReq, s \in LocalStatusChoices, h \in LocalHeaderChoices :
       LocalResponse(l, s, h)
  \/ \E l \in 1..MaxReq : LocalData(l)
  \/ \E l \in 1..MaxReq : LocalEnd(l)
  \/ \E c \in Chans, frame \in MalformedFrames \cup EarlyFrames :
       PeerSends(c, frame)
  \/ \E c \in Chans, frame \in RequestBodyFrames : ServerSends(c, frame)

FrameSpec == Init /\ [][FrameNext]_vars

\* ------------------------------------------------------------------ claims
\* The public requests for which forwardRequest created a record.
Created(r) == reqId[r] # NoId

\* r is the only request that was given its id.
UniqueId(r) == \A q \in Reqs : q # r => reqId[q] # reqId[r]

\* The table entry that holds r's response.
EntryOf(m, r) == m[CHOOSE i \in 1..Len(m) : m[i].res = r]

\* The step in which forwardRequest runs for r.
Forwards(r) == req[r].phase = "new" /\ req'[r].phase # "new"

\* C1: when no channel is registered, or the registered channel is not
\* open, forwardRequest answers 503 'No active tunnel', creates no record in
\* the in-flight table and sends no frame on any channel.
C1_NoActiveTunnel ==
  [][\A r \in Reqs :
       (/\ Forwards(r)
        /\ \/ activeTunnel = NoTunnel
           \/ readyState[activeTunnel.ws] # "OPEN")
       => /\ res'[r].status = 503
          /\ res'[r].json = "No active tunnel"
          /\ res'[r].ended
          /\ pendingRequests' = pendingRequests
          /\ reqId'[r] = NoId
          /\ toClient' = toClient
          /\ toEdge' = toEdge]_vars

\* A request was refused while a tunnel was registered on a closing channel.
C1_Witness ==
  \E r \in Reqs :
    /\ req[r].phase = "rejected"
    /\ res[r].status = 503
    /\ activeTunnel # NoTunnel
    /\ readyState[activeTunnel.ws] = "CLOSING"

\* C2: for a public request with Content-Length > 0 whose channel stays
\* open, the bytes written to the loopback request are always a prefix of
\* the public request body, and equal the whole body once the loopback
\* request is ended.
C2_RequestBodyDelivered ==
  \A r \in Reqs : \A l \in 1..Len(local) :
    (/\ Created(r) /\ UniqueId(r)
     /\ hasBodyOf(req[r].headers)
     /\ local[l].id = reqId[r]
     /\ clientState[local[l].chan] = "OPEN")
    => /\ IsPrefix(local[l].written, Fragments(req[r].total))
       /\ local[l].ended => local[l].written = Fragments(req[r].total)

\* C3: for a request whose channel stays open and whose deadline does not
\* fire, the bytes written to the public response are the fragments of the
\* loopback response, in order, none lost or duplicated, and the response
\* is ended only after the last of them.  (Stated for runs without faults.)
C3_ResponseBodyDelivered ==
  \A r \in Reqs : \A l \in 1..Len(local) :
    (/\ Created(r) /\ UniqueId(r)
     /\ faults = 0 /\ timer[r]
     /\ local[l].id = reqId[r])
    => /\ IsPrefix(res[r].body, Fragments(local[l].sent))
       /\ res[r].ended =>
            /\ res[r].body = Fragments(local[l].sent)
            /\ local[l].stage = "ended"

\* The step in which the 'close' handler of the registered channel c runs.
ClosesRegistered(c) ==
  /\ readyState[c] = "CLOSING" /\ readyState'[c] = "CLOSED"
  /\ closeListener[c]
  /\ activeTunnel # NoTunnel /\ activeTunnel.ws = c

\* C4: when the registered channel closes, every in-flight record is
\* finished, with a 503 if no response head had been received and by ending
\* its response otherwise, and the in-flight table is empty afterwards.
C4_CloseFinishesAll ==
  [][\A c \in Chans :
       ClosesRegistered(c)
       => /\ pendingRequests' = <<>>
          /\ \A i \in 1..Len(pendingRequests) :
               LET p == pendingRequests[i] IN
               /\ res'[p.res].ended
               /\ ~p.responseStarted => res'[p.res].status = 503]_vars

\* The step in which the edge receives a register frame on channel c while
\* another channel is the registered one.
RegistersOver(c) ==
  /\ readyState[c] = "OPEN"
  /\ toEdge[c] # <<>> /\ Head(toEdge[c]).type = "register"
  /\ toEdge'[c] = Tail(toEdge[c])
  /\ activeTunnel # NoTunnel /\ activeTunnel.ws # c

\* C5: a register frame on channel B while A is registered closes A, fails
\* and removes every in-flight record of A, makes B the registered channel
\* and sends B a registered frame echoing B's declared port.
C5_ReplaceRegistration ==
  [][\A c \in Chans :
       RegistersOver(c)
       => /\ readyState'[activeTunnel.ws] # "OPEN"
          /\ pendingRequests' = <<>>
          /\ \A i \in 1..Len(pendingRequests) :
               res'[pendingRequests[i].res].status = 503
          /\ activeTunnel' # NoTunnel /\ activeTunnel'.ws = c
          /\ toClient'[c] # <<>>
          /\ toClient'[c][Len(toClient'[c])].type = "registered"
          /\ toClient'[c][Len(toClient'[c])].port = Head(toEdge[c]).port]_vars

\* C6: a record leaves the in-flight table at most once, and once it has
\* left no event (frame, timer, request-stream error, channel close)
\* changes anything of its public response.
C6_RemovedIsFinal ==
  [][\A r \in Reqs :
       (Created(r) /\ r \notin InTable(pendingRequests))
       => /\ res'[r] = res[r]
          /\ r \notin InTable(pendingRequests')]_vars

\* The deadline removed r's record with a 504, and r's request stream
\* failed after that.
C6_Witness ==
  \E r \in Reqs :
    /\ Created(r) /\ r \notin InTable(pendingRequests)
    /\ res[r].json = "Request timeout"
    /\ req[r].phase = "errored"

\* C7: every request whose record was created has its record removed and
\* its response finished; no record is destroyed while its response stays
\* open.  (Stated for requests whose id no other request shares.)
C7_DestroyedIsFinished ==
  \A r \in Reqs :
    (Created(r) /\ UniqueId(r) /\ r \notin InTable(pendingRequests))
    => res[r].ended

\* The step in which r's timer fires.
TimerFires(r) == timer[r] /\ ~timer'[r]

\* C8: the deadline closes a record that is still in the table, with 504
\* 'Request timeout' if nothing of the response has been received and by
\* ending the response otherwise, and removes it; a deadline that fires
\* for a record already removed changes nothing.
C8_Deadline ==
  [][\A r \in Reqs :
       TimerFires(r)
       => IF r \in InTable(pendingRequests)
          THEN /\ r \notin InTable(pendingRequests')
               /\ res'[r].ended
               /\ IF EntryOf(pendingRequests, r).responseStarted
                  THEN res'[r].body = res[r].body /\ res'[r].json = Undef
                  ELSE res'[r].status = 504
                       /\ res'[r].json = "Request timeout"
          ELSE /\ pendingRequests' = pendingRequests
               /\ res' = res]_vars

\* The header names of the frames in flight.
FramesInFlight ==
  UNION {{toClient[c][i] : i \in 1..Len(toClient[c])} : c \in Chans}
  \cup UNION {{toEdge[c][i] : i \in 1..Len(toEdge[c])} : c \in Chans}

\* C9: no frame on the control channel, in either direction, has a headers
\* field with one of the eight hop-by-hop names, compared case-insensitively.
C9_NoHopByHop ==
  \A f \in FramesInFlight :
    \A k \in DOMAIN f.headers : toLowerCase(k) \notin hopByHop

\* C10: every id minted by forwardRequest differs from the ids of the
\* records in flight, so a new record never overwrites an existing one.
C10_FreshId ==
  [][\A r \in Reqs :
       (Forwards(r) /\ reqId'[r] # NoId)
       => ~MapHas(pendingRequests, reqId'[r])]_vars

\* The step in which the edge receives the frame at the head of channel c.
Receives(c) ==
  /\ readyState[c] = "OPEN" /\ readyState'[c] = "OPEN"
  /\ toEdge[c] # <<>>
  /\ toEdge'[c] = Tail(toEdge[c])

\* The records of the table m whose id is not id.
OtherRecords(m, id) == SelectSeq(m, LAMBDA p : p.id # id)

\* C11: with several requests in flight, a frame carrying id X leaves every
\* record and response of another id as it was, and the bytes of a chunk
\* frame with id X are appended once to the response of record X.
C11_FrameTouchesOnlyItsRecord ==
  [][\A c \in Chans :
       (Receives(c) /\ Len(pendingRequests) >= 2)
       => LET f == Head(toEdge[c]) IN
          /\ OtherRecords(pendingRequests', f.id)
               = OtherRecords(pendingRequests, f.id)
          /\ \A i \in 1..Len(pendingRequests) :
               LET p == pendingRequests[i] IN
               /\ p.id # f.id => res'[p.res] = res[p.res]
               /\ (p.id = f.id /\ f.type = "chunk" /\ p.responseStarted)
                  => res'[p.res].body = res[p.res].body \o FromBase64(f.data)]_vars

\* C12: once the first body byte of a public response has been written, no
\* frame, in whatever order response, chunk and end frames arrive, sets the
\* status of that response again.
C12_HeadBeforeBody ==
  [][\A c \in Chans :
       Receives(c)
       => \A r \in Reqs :
            res[r].body # <<>> => res'[r].status = res[r].status]_vars

\* The step in which a connection attempt of the client fails.
AttemptFails == sock = "CONNECTING" /\ sock' = "CLOSED"

\* C13: whenever a connection attempt fails and the client goes on running,
\* a further attempt is scheduled; and when an attempt opens, the attempt
\* counter is 0.
C13_RetriesUntilOpen ==
  [][/\ (AttemptFails /\ exitCode' = Running) => reconnectTimeout'.armed
     /\ sock' = "OPEN" => attempts' = 0]_vars

\* The step in which reconnect() arms the timer of the next attempt.
ArmsTimer == ~reconnectTimeout.armed /\ reconnectTimeout'.armed

\* C14: the timer of the n-th consecutive reconnect attempt since the last
\* open (n - 1 attempts were started before it) is armed with the delay
\* min(1000 * 2^(n-1), 60000) before jitter.
C14_DelayOfNthAttempt ==
  [][ArmsTimer =>
       reconnectTimeout'.base
         = Min(baseDelay * Pow2(attemptsStarted), maxDelay)]_vars

\* C15: over consecutive reconnect attempts without an open in between, the
\* delay before jitter never decreases from one attempt to the next and
\* never exceeds 60000 ms.
C15_DelayMonotoneAndCapped ==
  [][(reconnectTimeout'.armed /\ attempts' > 1)
       => /\ reconnectTimeout'.base >= reconnectTimeout.base
          /\ reconnectTimeout'.base <= maxDelay]_vars

\* The sixth consecutive attempt is armed with the cap (1000 * 2^6 > 60000).
C15_Witness ==
  /\ reconnectTimeout.armed
  /\ attempts = 6
  /\ reconnectTimeout.base = maxDelay

\* C16: with a limit of N attempts configured, the controller does not
\* stall: while the socket is closed and the process runs, the timer of the
\* next attempt is armed, and the process gives up with exit code 1 only
\* when exactly N attempts have been started.
C16_GivesUpAfterN ==
  maxAttempts.finite =>
    /\ (sock = "CLOSED" /\ exitCode = Running) => reconnectTimeout.armed
    /\ exitCode = Exited(1) => attemptsStarted = maxAttempts.n

RequestFails(l) == local[l].stage = "pending" /\ local'[l].stage = "failed"

\* The frame the client sends in this step on channel c, if it sends one.
SendsFrame(c) == Len(toEdge'[c]) = Len(toEdge[c]) + 1
FrameSent(c) == toEdge'[c][Len(toEdge'[c])]

\* C18: when the loopback request of an id cannot be established, the
\* client sends one response frame with status 502 and an inline body for
\* that id and removes the id from its pending table; afterwards it sends no
\* chunk or end frame for that id; and the edge, on that frame, answers the
\* caller of the record with 502, ends the response and removes the record.
C18_LocalFailureIs502 ==
  [][/\ \A l \in 1..Len(local) :
          LET c == local[l].chan
              id == local[l].id
          IN
          /\ RequestFails(l)
             => /\ SendsFrame(c)
                /\ FrameSent(c).type = "response"
                /\ FrameSent(c).id = id
                /\ FrameSent(c).status = 502
                /\ FromBase64(FrameSent(c).body) = LocalFailedDoc
                /\ ~FrameSent(c).streaming
                /\ ~MapHas(clientPending'[c], id)
          /\ (local[l].stage = "failed" /\ SendsFrame(c))
             => ~(FrameSent(c).id = id /\ FrameSent(c).type \in {"chunk", "end"})
     /\ \A c \in Chans :
          (/\ Receives(c)
           /\ Head(toEdge[c]).type = "response"
           /\ Head(toEdge[c]).status = 502
           /\ MapHas(pendingRequests, Head(toEdge[c]).id))
          => LET p == MapGet(pendingRequests, Head(toEdge[c]).id) IN
             /\ res'[p.res].status = 502
             /\ res'[p.res].ended
             /\ ~MapHas(pendingRequests', p.id)]_vars

\* C19: getStatus() reports connected exactly when a tunnel is registered
\* and its channel is open, with the port that channel declared when it
\* registered; without a registration it reports not connected with port
\* and uptime empty; once the registered channel is closing or closed it
\* reports not connected.
C19_StatusMatchesRegistration ==
  ~crashed =>
    /\ getStatus.connected
         <=> (activeTunnel # NoTunnel /\ readyState[activeTunnel.ws] = "OPEN")
    /\ activeTunnel # NoTunnel
         => /\ getStatus.port = LocalPort[activeTunnel.ws]
            /\ getStatus.uptime # Undef
    /\ activeTunnel = NoTunnel
         => getStatus = [connected |-> FALSE, port |-> 0, uptime |-> Undef]
    /\ \A c \in Chans :
         (closeListener[c] /\ readyState[c] \in {"CLOSING", "CLOSED"}
            /\ (activeTunnel = NoTunnel \/ activeTunnel.ws = c))
         => ~getStatus.connected

\* The registered channel is closing, its close handler has not run yet, and
\* getStatus reports not connected with the port of the registration.
C19_Witness ==
  /\ ~crashed
  /\ activeTunnel # NoTunnel
  /\ readyState[activeTunnel.ws] = "CLOSING"
  /\ ~getStatus.connected
  /\ getStatus.port = LocalPort["A"]

\* C20: status.json exists only while the client's channel is open: once the
\* channel is not open, or the client has terminated, and no file operation
\* of updateStatus or clearStatus is pending, status.json does not exist.
C20_StatusFileOnlyWhileOpen ==
  ((sock # "OPEN" \/ exitCode.exited) /\ PendingFileOps = 0)
    => statusFile = "absent"

\* The step of an initConfig call (the clock stands still during it).
CallsInit == now' = now

\* A string without the slash it ends with.
WithoutTrailingSlash(s) ==
  IF s # <<>> /\ s[Len(s)] = "/" THEN SubSeq(s, 1, Len(s) - 1) ELSE s

\* C21 as stated: after a successful initConfig call getConfig returns the
\* domain of that call with one trailing slash trimmed, and the createdAt
\* the first successful call wrote; a call that fails validation leaves
\* config.json unchanged.
C21_ConfigRoundTripAsStated ==
  [][CallsInit =>
       IF initCall'.error = Undef
       THEN /\ getConfig'.domain = WithoutTrailingSlash(initCall'.domain)
            /\ getConfig'.createdAt
                 = IF configFile.exists THEN getConfig.createdAt ELSE now
       ELSE configFile' = configFile]_vars

\* C21, amended: after a successful initConfig call getConfig returns the
\* domain of that call with the white space at its ends removed and then one
\* trailing slash trimmed, and the createdAt the first successful call
\* wrote; a call that fails validation leaves config.json unchanged.
C21_ConfigRoundTrip ==
  [][CallsInit =>
       IF initCall'.error = Undef
       THEN /\ getConfig'.domain = WithoutTrailingSlash(trim(initCall'.domain))
            /\ getConfig'.createdAt
                 = IF configFile.exists THEN getConfig.createdAt ELSE now
       ELSE configFile' = configFile]_vars

\* A later successful call, given a domain with a trailing slash, kept the
\* createdAt of the first call.
C21_Witness ==
  /\ initCall = [domain |-> <<"https:", "/", "/", "a", "/">>, error |-> Undef]
  /\ getConfig.domain = <<"https:", "/", "/", "a">>
  /\ getConfig.createdAt = 1
  /\ getConfig.updatedAt = 3

\* The frame the edge sends in this step on channel c, if it sends one.
EdgeSends(c) == Len(toClient'[c]) = Len(toClient[c]) + 1
EdgeFrameSent(c) == toClient'[c][Len(toClient'[c])]

\* C22: the frames the edge sends for a request id are the request frame
\* (when the id is minted), then one chunk frame with direction = request
\* for each fragment of the public request body, in arrival order, then one
\* end frame with direction = request; after that end the edge sends no
\* request-direction frame for the id.
C22_RequestFrameOrder ==
  [][\A c \in Chans :
       (EdgeSends(c) /\ EdgeFrameSent(c).id # NoId)
       => LET f == EdgeFrameSent(c) IN
          \E r \in Reqs :
            /\ reqId'[r] = f.id
            /\ CASE f.type = "request" -> req[r].phase = "new"
                 [] f.type = "chunk" ->
                      /\ f.direction = "request"
                      /\ req[r].phase = "open"
                      /\ req'[r].read = req[r].read + 1
                      /\ FromBase64(f.data) = Fragment(req'[r].read)
                 [] f.type = "end" ->
                      /\ f.direction = "request"
                      /\ req[r].phase = "open"
                      /\ req[r].read = req[r].total
                      /\ req'[r].phase = "ended"
                 [] OTHER -> FALSE]_vars

\* C23: the frames the client sends for one loopback request carry its id
\* and come in the order: one response frame, then chunk frames only, then
\* at most one end frame; no second response frame and no frame after the
\* end is sent, and a loopback response error after the response frame sends
\* no frame.
C23_ResponseFrameOrder ==
  [][\A l \in 1..Len(local) :
       LET c == local[l].chan IN
       (SendsFrame(c) /\ local'[l] # local[l])
       => LET f == FrameSent(c) IN
          /\ f.id = local[l].id
          /\ CASE f.type = "response" -> local[l].stage = "pending"
               [] f.type = "chunk" ->
                    /\ local[l].stage = "responding"
                    /\ local'[l].stage = "responding"
               [] f.type = "end" ->
                    /\ local[l].stage = "responding"
                    /\ local'[l].stage = "ended"
               [] OTHER -> FALSE]_vars

\* The frame at the head of channel c is one the client's code never sends.
MalformedAhead(c) == toEdge[c] # <<>> /\ Head(toEdge[c]) \in MalformedFrames

\* C24: a malformed frame from the client leaves the registration as it
\* was; a record whose id the frame does not carry stays in the table with
\* its response unchanged; the record whose id it carries either stays as it
\* was or is removed, answered 500 if no response head had been received and
\* ended otherwise.
C24_MalformedFrame ==
  [][\A c \in Chans :
       (Receives(c) /\ MalformedAhead(c))
       => LET f == Head(toEdge[c]) IN
          /\ activeTunnel' = activeTunnel
          /\ \A i \in 1..Len(pendingRequests) :
               LET p == pendingRequests[i] IN
               IF p.id # f.id
               THEN /\ MapHas(pendingRequests', p.id)
                    /\ MapGet(pendingRequests', p.id) = p
                    /\ res'[p.res] = res[p.res]
               ELSE \/ /\ MapHas(pendingRequests', p.id)
                       /\ MapGet(pendingRequests', p.id) = p
                       /\ res'[p.res] = res[p.res]
                    \/ /\ ~MapHas(pendingRequests', p.id)
                       /\ res'[p.res].ended
                       /\ res'[p.res].body = res[p.res].body
                       /\ ~p.responseStarted => res'[p.res].status = 500]_vars

\* The channel c carries the responseHandler of r: forwardRequest attached
\* it to the channel that was registered when r's id was minted.
HandlerOn(c, r) == IndexOf(listeners[c], r, 1) # 0

\* C25: a frame with the id of the request r is sent only on the channel
\* that was registered when the id was minted: never on a channel other
\* than the one that carries r's responseHandler.
C25_FramesStayOnTheirChannel ==
  [][\A c \in Chans : \A r \in Reqs :
       (/\ EdgeSends(c)
        /\ EdgeFrameSent(c).id = reqId'[r]
        /\ req'[r] # req[r])
       => \A c2 \in Chans \ {c} : ~HandlerOn(c2, r)]_vars

\* The record of the id of the frame at the head of the registered channel
\* c has received nothing yet, and its responseHandler is on c.
AwaitingHead(c) ==
  /\ activeTunnel # NoTunnel /\ activeTunnel.ws = c
  /\ toEdge[c] # <<>>
  /\ Head(toEdge[c]).parsed = "object"
  /\ MapHas(pendingRequests, Head(toEdge[c]).id)
  /\ LET p == MapGet(pendingRequests, Head(toEdge[c]).id) IN
     /\ ~p.responseStarted
     /\ ~res[p.res].headersSent
     /\ HandlerOn(c, p.res)

\* C26: for a record in AwaitingHead, a chunk frame makes the edge set
\* status 200, write the bytes of the chunk and keep the record in flight
\* as Streaming; an end frame makes it set status 200, end the response
\* with an empty body and remove the record.
C26_ImplicitHead ==
  [][\A c \in Chans :
       (Receives(c) /\ AwaitingHead(c))
       => LET f == Head(toEdge[c])
              p == MapGet(pendingRequests, f.id)
          IN
          /\ (f.type = "chunk" /\ f.data # <<>>)
             => /\ res'[p.res].status = 200
                /\ res'[p.res].body = FromBase64(f.data)
                /\ ~res'[p.res].ended
                /\ MapHas(pendingRequests', p.id)
                /\ MapGet(pendingRequests', p.id)
                     = [p EXCEPT !.responseStarted = TRUE]
          /\ f.type = "end"
             => /\ res'[p.res].status = 200
                /\ res'[p.res].body = <<>>
                /\ res'[p.res].ended
                /\ ~MapHas(pendingRequests', p.id)]_vars

\* The step in which the client of channel c receives the frame at the head
\* of the channel.
ClientReceives(c) ==
  /\ clientState[c] = "OPEN"
  /\ toClient[c] # <<>>
  /\ toClient'[c] = Tail(toClient[c])

\* The pending table of the client of l's channel maps l's id to l.
HasEntry(pend, loc, l) ==
  /\ MapHas(pend[loc[l].chan], loc[l].id)
  /\ MapGet(pend[loc[l].chan], loc[l].id).req = l

\* What C27 says of a request frame without inline body that the client
\* of channel c receives: without hasBody the loopback request is ended at
\* once and no pending entry is kept; with hasBody it is left open with a
\* pending entry.
OnRequestFrame(c) ==
  (/\ ClientReceives(c)
   /\ Head(toClient[c]).type = "request"
   /\ Head(toClient[c]).body = <<>>)
  => LET f == Head(toClient[c])
         l == Len(local) + 1
     IN
     /\ Len(local') = l
     /\ local'[l].id = f.id
     /\ IF f.hasBody
        THEN ~local'[l].ended /\ HasEntry(clientPending', local', l)
        ELSE local'[l].ended /\ ~MapHas(clientPending'[c], f.id)

\* An open loopback request is ended only by an end frame with
\* direction = request and its id, which removes the pending entry.
EndedByEndFrame(l) ==
  local'[l].ended
  => /\ ClientReceives(local[l].chan)
     /\ isRequestEnd(Head(toClient[local[l].chan]))
     /\ Head(toClient[local[l].chan]).id = local[l].id
     /\ ~MapHas(clientPending'[local[l].chan], local[l].id)

\* C27 as stated: on a request frame without inline body the client ends
\* the loopback request at once and keeps no pending entry if hasBody is
\* false, and leaves it open with a pending entry if hasBody is true; an
\* open loopback request has its pending entry until an end frame with
\* direction = request and its id arrives, and is ended at that point only.
C27_LocalRequestBodyAsStated ==
  [][/\ \A c \in Chans : OnRequestFrame(c)
     /\ \A l \in 1..Len(local) :
          ~local[l].ended
          => /\ HasEntry(clientPending, local, l)
             /\ EndedByEndFrame(l)]_vars

\* C27, amended: as stated, but the pending entry of the id of an open
\* loopback request is removed not only by the end frame: also when a
\* loopback request of that id fails, when the channel closes, and when a
\* further request frame with that id arrives.
C27_LocalRequestBody ==
  [][/\ \A c \in Chans : OnRequestFrame(c)
     /\ \A l \in 1..Len(local) :
          LET c == local[l].chan
              id == local[l].id
          IN
          ~local[l].ended
          => /\ EndedByEndFrame(l)
             /\ (MapHas(clientPending[c], id) /\ ~MapHas(clientPending'[c], id))
                => \/ /\ ClientReceives(c)
                      /\ Head(toClient[c]).id = id
                      /\ \/ isRequestEnd(Head(toClient[c]))
                         \/ Head(toClient[c]).type = "request"
                   \/ \E k \in 1..Len(local) :
                        /\ local[k].chan = c /\ local[k].id = id
                        /\ local[k].stage # "failed"
                        /\ local'[k].stage = "failed"
                   \/ clientState'[c] = "CLOSED"]_vars

\* A public request with a body, the only one with its id: its loopback
\* request was left open, then ended by the end frame, and its pending entry
\* is gone.
C27_Witness ==
  \E r \in Reqs : \E l \in 1..Len(local) :
    /\ UniqueId(r) /\ local[l].id = reqId[r]
    /\ hasBodyOf(req[r].headers)
    /\ req[r].phase = "ended"
    /\ local[l].ended
    /\ ~MapHas(clientPending[local[l].chan], local[l].id)

\* The frame at the head of channel c is a chunk or an end frame whose id
\* is not in the pending table of the client of c.
UnknownIdAhead(c) ==
  /\ toClient[c] # <<>>
  /\ Head(toClient[c]).type \in {"chunk", "end"}
  /\ ~MapHas(clientPending[c], Head(toClient[c]).id)

\* C28: a chunk or end frame the client receives for an id that is not in
\* its pending table leaves the pending table and every loopback request as
\* they were, and no frame is sent.
C28_UnknownIdIgnored ==
  [][\A c \in Chans :
       (ClientReceives(c) /\ UnknownIdAhead(c))
       => /\ clientPending' = clientPending
          /\ local' = local
          /\ toEdge' = toEdge]_vars

\* A chunk frame with direction = request is about to be received for an id
\* that is not in the pending table, while the table holds the entry of an
\* open loopback request of another id.
C28_Witness ==
  \E c \in Chans :
    /\ clientState[c] = "OPEN"
    /\ UnknownIdAhead(c)
    /\ isRequestChunk(Head(toClient[c]))
    /\ clientPending[c] # <<>>
    /\ \E l \in 1..Len(local) : local[l].chan = c /\ ~local[l].ended

\* The controller is quiescent in the state after the step.
Quiescent == attempts' = 0 /\ ~isReconnecting' /\ ~reconnectTimeout'.armed

\* C29: whenever the channel is open the controller is quiescent (attempt
\* counter 0, not reconnecting, no timer pending), and the disconnect that
\* follows an open arms the timer of attempt 1 with the delay of a first
\* attempt, however many attempts preceded the open.
C29_QuiescentOnOpen ==
  [][/\ sock' = "OPEN" => Quiescent
     /\ (sock = "OPEN" /\ sock' = "CLOSED" /\ exitCode' = Running)
        => /\ attempts' = 1
           /\ reconnectTimeout'.armed
           /\ reconnectTimeout'.base = getDelay(1, 0).base]_vars

\* The channel was open (status.json was written), it has closed (its
\* unlink is pending), and the timer of attempt 1 is armed with the delay
\* of a first attempt.
C29_Witness ==
  /\ sock = "CLOSED"
  /\ statusFile = "connected" /\ fileOps.unlink > 0
  /\ attempts = 1 /\ attemptsStarted = 0
  /\ reconnectTimeout.armed
  /\ reconnectTimeout.base = getDelay(1, 0).base

\* The step in which a socket closes while the controller is reconnecting:
\* its 'close' handler calls reconnect() on a controller that is busy.
ReconnectWhileBusy == isReconnecting /\ sock # "CLOSED" /\ sock' = "CLOSED"

\* C30: a call of reconnect() while the controller is reconnecting leaves
\* the attempt counter and the timer as they were and starts no attempt; a
\* timer is armed only when none is pending, and a connection attempt is
\* started only when no socket is connecting or open.
C30_SingleReconnect ==
  [][/\ ReconnectWhileBusy
        => /\ attempts' = attempts
           /\ reconnectTimeout' = reconnectTimeout
           /\ attemptsStarted' = attemptsStarted
           /\ exitCode' = exitCode
     /\ (reconnectTimeout'.armed /\ reconnectTimeout' # reconnectTimeout)
        => ~reconnectTimeout.armed
     /\ attemptsStarted' = attemptsStarted + 1 => sock = "CLOSED"]_vars

\* The attempt of a reconnection failed and its 'close' handler has called
\* reconnect() on the busy controller: one attempt counted, one started, no
\* timer armed.
C30_Witness ==
  /\ sock = "CLOSED" /\ exitCode = Running
  /\ isReconnecting
  /\ attempts = 1 /\ attemptsStarted = 1
  /\ ~reconnectTimeout.armed

\* C31: a chunk frame received on a channel is applied once to its request
\* record: its bytes are appended once to the public response of the record
\* with the frame's id, however many listeners of the channel's 'message'
\* event run and however often the event is emitted.
C31_FrameAppliedOnce ==
  [][\A c \in Chans :
       Receives(c)
       => LET f == Head(toEdge[c]) IN
          \A i \in 1..Len(pendingRequests) :
            LET p == pendingRequests[i] IN
            (/\ f.type = "chunk" /\ ~parseThrows(f) /\ f.data # <<>>
             /\ p.id = f.id /\ p.responseStarted /\ ~res[p.res].ended)
            => res'[p.res].body = res[p.res].body \o FromBase64(f.data)]_vars

\* The loopback request l is open: req.end() has not been called on it and
\* it has not failed, so the local service is still waiting for its body.
AwaitingBody(loc, l) == ~loc[l].ended /\ loc[l].stage = "pending"

\* C32: in the step in which the client's channel closes, every loopback
\* request of that channel that is still waiting for request-body frames is
\* ended or aborted, so that none stays open once its pending entry is gone.
C32_CloseEndsLocalRequests ==
  [][\A c \in Chans :
       (clientState[c] # "CLOSED" /\ clientState'[c] = "CLOSED")
       => \A l \in 1..Len(local) :
            (local[l].chan = c /\ AwaitingBody(local, l))
            => ~AwaitingBody(local', l)]_vars

\* What follows the scheme and its two slashes in the URL s.
AfterScheme(s) == SubSeq(s, 4, Len(s))

\* C33: the socket of connectOnce is opened to ws://<host>/connect when the
\* configured server URL starts with http://, and to wss://<host>/connect
\* when it starts with https://.
C33_ConnectUrlByScheme ==
  [][socketUrl' # socketUrl
     => LET serverUrl == getConfig.domain IN
        /\ startsWith(serverUrl, <<"http:", "/", "/">>)
           => socketUrl' = <<"ws:", "/", "/">> \o AfterScheme(serverUrl)
                             \o <<"/", "connect">>
        /\ startsWith(serverUrl, <<"https:", "/", "/">>)
           => socketUrl' = <<"wss:", "/", "/">> \o AfterScheme(serverUrl)
                             \o <<"/", "connect">>]_vars

\* The step in which a call of sanitizeHeaders returns: the first call, or
\* the call with the object the first call returned.
SanitizeReturns ==
  sanitized'.returned /\ (~sanitized.returned \/ headersArg' # headersArg)

\* C34: sanitizeHeaders returns exactly the entries of its input whose
\* lower-cased name is not one of the eight hop-by-hop names, with names and
\* values unchanged; the input is left as it was; and the call with the
\* returned object returns an equal object.
C34_SanitizeHeaders ==
  [][SanitizeReturns
     => LET input == IF sanitized.returned THEN sanitized.value
                     ELSE headersArg
        IN
        /\ DOMAIN sanitized'.value =
             {k \in DOMAIN input :
                toLowerCase(k) \notin
                  {"connection", "keep-alive", "proxy-authenticate",
                   "proxy-authorization", "te", "trailers",
                   "transfer-encoding", "upgrade"}}
        /\ \A k \in DOMAIN sanitized'.value : sanitized'.value[k] = input[k]
        /\ headersArg' = input
        /\ sanitized.returned => sanitized'.value = sanitized.value]_vars

\* sanitizeHeaders has returned for a request with a hop-by-hop name in
\* lower case, one as typed, and an end-to-end name: only the last is kept.
C34_Witness ==
  /\ sanitized.returned
  /\ DOMAIN headersArg = {"te", "Connection", "Host"}
  /\ DOMAIN sanitized.value = {"Host"}
  /\ sanitized.value["Host"] = headersArg["Host"]

====
